---- MODULE Spec2Model ----
(***************************************************************************)
(* Model of src/ProjectSetUp.py, the "Project Utility" Blender add-on:     *)
(* the folder list, the default-folder template, the operators that create *)
(* and reconcile the project directories, the blend-file save and the      *)
(* PureRef launcher.                                                       *)
(*                                                                         *)
(* A Python str is a sequence of one-character strings, so that split(),   *)
(* strip(), lower() and endswith() are computed and not assumed.           *)
(***************************************************************************)
EXTENDS Integers, Sequences, FiniteSets, TLC

VARIABLES
    default_folder_names,   \* prefs.default_folder_names (l.277-281)
    custom_folder_names,    \* Scene.custom_folder_names (l.50-54)
    folder_list,            \* Scene.folder_list: the entries' names, in order (l.20)
    active_folder_index,    \* Scene.active_folder_index, 0-based (l.23)
    rootKind,               \* what Path(scene.directory_path).resolve() is on disk
    children,               \* the root's immediate entries: name -> "dir" | "file"
    blend_name,             \* Scene.blend_name (l.42-47)
    pure_ref_path,          \* Scene.pure_ref_path (l.34-39)
    files,                  \* the paths that are regular files, for os.path.isfile (l.248)
    last,                   \* record of the last execute() call
    prev                    \* record of the execute() call before it

vars == << default_folder_names, custom_folder_names, folder_list,
           active_folder_index, rootKind, children, blend_name,
           pure_ref_path, files, last, prev >>

-----------------------------------------------------------------------------
(* Bounds of the model.                                                    *)

\* AddNewFolderOperator appends only while the list is shorter than this.
MaxFolders == 3

-----------------------------------------------------------------------------
(* Python str operations.                                                  *)

\* Index in s (at or after i) of the first occurrence of character c; 0 if none.
RECURSIVE Find(_, _, _)
Find(s, c, i) ==
    IF i > Len(s) THEN 0
    ELSE IF s[i] = c THEN i
    ELSE Find(s, c, i + 1)

\* str.split(sep) for a one-character separator: always at least one token,
\* empty tokens kept.
RECURSIVE Split(_, _)
Split(s, sep) ==
    LET k == Find(s, sep, 1) IN
    IF k = 0 THEN << s >>
    ELSE << SubSeq(s, 1, k - 1) >> \o Split(SubSeq(s, k + 1, Len(s)), sep)

IsSpace(c) == c \in {" ", "\t"}

RECURSIVE LStrip(_)
LStrip(s) ==
    IF s # << >> /\ IsSpace(Head(s)) THEN LStrip(Tail(s)) ELSE s

RECURSIVE RStrip(_)
RStrip(s) ==
    IF s # << >> /\ IsSpace(s[Len(s)]) THEN RStrip(SubSeq(s, 1, Len(s) - 1)) ELSE s

\* str.strip()
Strip(s) == RStrip(LStrip(s))

\* str.lower(), on the characters the model uses.
LowerChar(c) ==
    CASE c = "P" -> "p"
      [] c = "U" -> "u"
      [] c = "R" -> "r"
      [] c = "A" -> "a"
      [] OTHER -> c

Lower(s) == [i \in 1..Len(s) |-> LowerChar(s[i])]

\* str.endswith(suffix)
EndsWith(s, suffix) ==
    /\ Len(s) >= Len(suffix)
    /\ SubSeq(s, Len(s) - Len(suffix) + 1, Len(s)) = suffix

-----------------------------------------------------------------------------
(* String literals of the program.                                         *)

Blender == << "B", "l", "e", "n", "d", "e", "r" >>
Geo == << "G", "e", "o" >>
Painter == << "P", "a", "i", "n", "t", "e", "r" >>
Photoshop == << "P", "h", "o", "t", "o", "s", "h", "o", "p" >>
References == << "R", "e", "f", "e", "r", "e", "n", "c", "e", "s" >>
Renders == << "R", "e", "n", "d", "e", "r", "s" >>
Textures == << "T", "e", "x", "t", "u", "r", "e", "s" >>
Comma == << "," >>

\* default of ProjectSetUpPreferences.default_folder_names
DefaultTemplate ==
    Blender \o Comma \o Geo \o Comma \o Painter \o Comma \o Photoshop \o Comma
        \o References \o Comma \o Renders \o Comma \o Textures

\* the name AddNewFolderOperator gives a new entry
NewFolderName == << "N", "e", "w", " ", "F", "o", "l", "d", "e", "r" >>

DotBlend == << ".", "b", "l", "e", "n", "d" >>
DotPur == << ".", "p", "u", "r" >>

-----------------------------------------------------------------------------
(* The record kept of an execute() call: what it returned, what it         *)
(* reported, and what it did to its collaborators.                         *)

NoName == << "<", ">" >>

Call(op, result, severity, message) ==
    [ op        |-> op,
      result    |-> result,      \* "FINISHED", "CANCELLED", or "RAISED" when an exception left execute()
      severity  |-> severity,    \* of the self.report() made: "INFO", "ERROR", "NONE"
      message   |-> message,
      preRoot   |-> rootKind,    \* the filesystem when execute() was entered
      preChildren |-> children,
      toCreate  |-> {},          \* folders_to_add
      toDelete  |-> {},          \* folders_to_remove
      done      |-> << >>,       \* the filesystem calls that succeeded, in order
      failed    |-> NoName,      \* the name whose filesystem call raised
      refused   |-> FALSE,       \* the OS refused a filesystem call that was otherwise in order
      input     |-> << >>,       \* the string property execute() read
      saves     |-> << >>,       \* filepath arguments of bpy.ops.wm.save_as_mainfile
      launches  |-> << >> ]      \* arguments of subprocess.Popen

NoCall ==
    [ op |-> "none", result |-> "NONE", severity |-> "NONE", message |-> "",
      preRoot |-> "absent", preChildren |-> << >>, toCreate |-> {}, toDelete |-> {},
      done |-> << >>, failed |-> NoName, refused |-> FALSE, input |-> << >>,
      saves |-> << >>, launches |-> << >> ]

-----------------------------------------------------------------------------
(* Folder list operators.                                                  *)

\* the user edits the "Custom Folder Names" string property
Templates ==
    { << >>,
      << "a" >>,
      << "a", ",", "b" >>,
      << " ", "a", " ", ",", "b", " " >>,
      << "a", ",", ",", "b" >>,
      << "," >>,
      << " " >>,
      << "a", ",", "a" >>,
      Blender \o Comma \o << "a" >>,
      DefaultTemplate }

ListUnchanged == UNCHANGED << folder_list, active_folder_index >>
PrefsUnchanged == UNCHANGED << default_folder_names, custom_folder_names >>
DiskUnchanged == UNCHANGED << rootKind, children, files >>
PropsUnchanged == UNCHANGED << blend_name, pure_ref_path >>

SetCustomFolderNames(t) ==
    /\ custom_folder_names' = t
    /\ UNCHANGED << default_folder_names, last, prev >>
    /\ ListUnchanged /\ DiskUnchanged /\ PropsUnchanged

\* UpdateFolderPreferencesOperator.execute
UpdateFolderPreferences ==
    /\ default_folder_names' = custom_folder_names
    /\ last' = Call("update_folder_preferences", "FINISHED", "INFO", "Folder preferences updated.")
    /\ prev' = last
    /\ UNCHANGED custom_folder_names
    /\ ListUnchanged /\ DiskUnchanged /\ PropsUnchanged

\* [name.strip() for name in prefs.default_folder_names.split(',')]
DefaultFolderNames(template) ==
    LET parts == Split(template, ",") IN
    [i \in 1..Len(parts) |-> Strip(parts[i])]

\* AddDefaultFolderOperator.execute: clear the list, then one entry per name
AddDefaultFolder ==
    /\ folder_list' = << >> \o DefaultFolderNames(default_folder_names)
    /\ last' = [Call("add_default_folder", "FINISHED", "NONE", "")
                    EXCEPT !.input = default_folder_names]
    /\ prev' = last
    /\ UNCHANGED active_folder_index
    /\ PrefsUnchanged /\ DiskUnchanged /\ PropsUnchanged

\* AddNewFolderOperator.execute
AddNewFolder ==
    /\ Len(folder_list) < MaxFolders
    /\ folder_list' = Append(folder_list, NewFolderName)
    /\ last' = Call("add_new_folder", "FINISHED", "NONE", "")
    /\ prev' = last
    /\ UNCHANGED active_folder_index
    /\ PrefsUnchanged /\ DiskUnchanged /\ PropsUnchanged

\* the user clicks row i of the template_list, which sets the active index
SelectFolder(i) ==
    /\ i \in 0..(Len(folder_list) - 1)
    /\ active_folder_index' = i
    /\ UNCHANGED << folder_list, last, prev >>
    /\ PrefsUnchanged /\ DiskUnchanged /\ PropsUnchanged

\* bpy_prop_collection.remove(index): an index outside the collection removes nothing
RemoveAt(list, index) ==
    IF index >= 0 /\ index < Len(list)
    THEN SubSeq(list, 1, index) \o SubSeq(list, index + 2, Len(list))
    ELSE list

\* RemoveFolderOperator.execute
RemoveFolder ==
    /\ IF folder_list # << >> /\ active_folder_index >= 0
       THEN /\ folder_list' = RemoveAt(folder_list, active_folder_index)
            /\ active_folder_index' = -1
       ELSE ListUnchanged
    /\ last' = Call("remove_folder", "FINISHED", "NONE", "")
    /\ prev' = last
    /\ PrefsUnchanged /\ DiskUnchanged /\ PropsUnchanged

-----------------------------------------------------------------------------
(* Paths (pathlib.Path): an absolute path is the sequence of its           *)
(* components.                                                             *)

\* the components of a path string: split on "/", empty and "." parts dropped
PathParts(s) ==
    LET RECURSIVE Keep(_)
        Keep(parts) ==
            IF parts = << >> THEN << >>
            ELSE IF Head(parts) \in { << >>, << "." >> } THEN Keep(Tail(parts))
            ELSE << Head(parts) >> \o Keep(Tail(parts))
    IN Keep(Split(s, "/"))

\* path / segment: an absolute segment replaces the path
PathJoin(path, segment) ==
    IF segment # << >> /\ Head(segment) = "/"
    THEN PathParts(segment)
    ELSE path \o PathParts(segment)

\* Path.as_posix()
RECURSIVE AsPosix(_)
AsPosix(path) ==
    IF path = << >> THEN << "/" >>
    ELSE IF Len(path) = 1 THEN << "/" >> \o path[1]
    ELSE AsPosix(SubSeq(path, 1, Len(path) - 1)) \o << "/" >> \o path[Len(path)]

\* Path(scene.directory_path).resolve(): the project root, "/proj"
RootPath == << << "p", "r", "o", "j" >> >>

-----------------------------------------------------------------------------
(* The filesystem at and directly under the root.  A filesystem value is   *)
(* [root |-> kind, children |-> name -> kind].                             *)

Disk == [root |-> rootKind, children |-> children]

IsRoot(path) == path = RootPath
IsChild(path) ==
    /\ Len(path) = Len(RootPath) + 1
    /\ SubSeq(path, 1, Len(RootPath)) = RootPath
ChildName(path) == path[Len(path)]

\* "absent", "file" or "dir"
KindAt(fs, path) ==
    IF IsRoot(path) THEN fs.root
    ELSE IF IsChild(path) /\ fs.root = "dir" /\ ChildName(path) \in DOMAIN fs.children
    THEN fs.children[ChildName(path)]
    ELSE "absent"

WithChild(fs, name, kind) ==
    [fs EXCEPT !.children = [n \in (DOMAIN fs.children) \cup {name} |->
                                IF n = name THEN kind ELSE fs.children[n]]]

WithoutChild(fs, name) ==
    [fs EXCEPT !.children = [n \in (DOMAIN fs.children) \ {name} |-> fs.children[n]]]

Raised(fs, error) == [fs |-> fs, error |-> error]
Returned(fs) == [fs |-> fs, error |-> "none"]

\* os.makedirs(path) without exist_ok=True: an existing directory raises too
MakedirsNoExistOk(fs, path, refused) ==
    IF refused THEN Raised(fs, "OSError")
    ELSE IF KindAt(fs, path) # "absent" THEN Raised(fs, "FileExistsError")
    ELSE IF fs.root = "file" THEN Raised(fs, "NotADirectoryError")
    ELSE Returned(WithChild([fs EXCEPT !.root = "dir"], ChildName(path), "dir"))

\* os.makedirs(path, exist_ok=True); refused: the OS refuses the call (permissions, ...)
Makedirs(fs, path, refused) ==
    IF refused THEN Raised(fs, "OSError")
    ELSE IF KindAt(fs, path) = "dir" THEN Returned(fs)
    ELSE IF KindAt(fs, path) = "file" THEN Raised(fs, "FileExistsError")
    ELSE IF fs.root = "file" THEN Raised(fs, "NotADirectoryError")
    ELSE Returned(WithChild([fs EXCEPT !.root = "dir"], ChildName(path), "dir"))

\* os.mkdir(path)
Mkdir(fs, path, refused) ==
    IF refused THEN Raised(fs, "OSError")
    ELSE IF KindAt(fs, path) # "absent" THEN Raised(fs, "FileExistsError")
    ELSE IF fs.root # "dir" THEN Raised(fs, "NotADirectoryError")
    ELSE Returned(WithChild(fs, ChildName(path), "dir"))

\* shutil.rmtree(path)
Rmtree(fs, path, refused) ==
    IF refused THEN Raised(fs, "OSError")
    ELSE IF KindAt(fs, path) = "absent" THEN Raised(fs, "FileNotFoundError")
    ELSE IF KindAt(fs, path) = "file" THEN Raised(fs, "NotADirectoryError")
    ELSE Returned(WithoutChild(fs, ChildName(path)))

\* os.path.exists(path) and Path.exists()
Exists(fs, path) == KindAt(fs, path) # "absent"

-----------------------------------------------------------------------------
(* CreateProjectOperator.                                                  *)

\* the loop of l.141-147 from entry i on; refusedAt: the entry whose makedirs
\* the OS refuses (0: none)
RECURSIVE CreateLoop(_, _, _, _, _)
CreateLoop(names, i, fs, refusedAt, done) ==
    IF i > Len(names)
    THEN [fs |-> fs, error |-> "none", done |-> done, failed |-> NoName, refused |-> FALSE]
    ELSE LET r == Makedirs(fs, PathJoin(RootPath, names[i]), refusedAt = i) IN
         IF r.error # "none"
         THEN [fs |-> fs, error |-> r.error, done |-> done, failed |-> names[i],
               refused |-> refusedAt = i]
         ELSE CreateLoop(names, i + 1, r.fs, refusedAt, Append(done, names[i]))

CreateProject(refusedAt) ==
    /\ refusedAt \in 0..Len(folder_list)
    /\ prev' = last
    /\ IF ~ Exists(Disk, RootPath)
       THEN /\ last' = Call("create_project", "CANCELLED", "ERROR", "Directory does not exist.")
            /\ UNCHANGED << rootKind, children >>
       ELSE LET r == CreateLoop(folder_list, 1, Disk, refusedAt, << >>) IN
            /\ rootKind' = r.fs.root
            /\ children' = r.fs.children
            /\ last' = IF r.error # "none"
                       THEN [Call("create_project", "CANCELLED", "ERROR", "Error creating folder")
                                EXCEPT !.done = r.done, !.failed = r.failed,
                                       !.refused = r.refused]
                       ELSE [Call("create_project", "FINISHED", "INFO",
                                  "Project folders created successfully.")
                                EXCEPT !.done = r.done]
    /\ UNCHANGED files
    /\ ListUnchanged /\ PrefsUnchanged /\ PropsUnchanged

-----------------------------------------------------------------------------
(* UpdateProjectOperator.                                                  *)

\* the orders in which a for loop may visit a Python set
Orders(S) ==
    { o \in [1..Cardinality(S) -> S] : \A i, j \in 1..Cardinality(S) : o[i] = o[j] => i = j }

Range(seq) == { seq[i] : i \in 1..Len(seq) }

\* os.listdir(path): the names, or the error raised
Listdir(fs, path, refused) ==
    IF refused THEN [names |-> {}, error |-> "OSError"]
    ELSE IF KindAt(fs, path) = "absent" THEN [names |-> {}, error |-> "FileNotFoundError"]
    ELSE IF KindAt(fs, path) = "file" THEN [names |-> {}, error |-> "NotADirectoryError"]
    ELSE [names |-> DOMAIN fs.children, error |-> "none"]

\* one filesystem call of the try block: << "mkdir", name >> or << "rmtree", name >>
FsCall(fs, call, refused) ==
    IF call[1] = "mkdir"
    THEN Mkdir(fs, PathJoin(RootPath, call[2]), refused)
    ELSE Rmtree(fs, PathJoin(RootPath, call[2]), refused)

\* the two loops of l.213-220 from call i on; the first call that raises ends them
RECURSIVE UpdateLoop(_, _, _, _, _)
UpdateLoop(calls, i, fs, refusedAt, done) ==
    IF i > Len(calls)
    THEN [fs |-> fs, error |-> "none", done |-> done, failed |-> NoName, refused |-> FALSE]
    ELSE LET r == FsCall(fs, calls[i], refusedAt = i) IN
         IF r.error # "none"
         THEN [fs |-> fs, error |-> r.error, done |-> done, failed |-> calls[i][2],
               refused |-> refusedAt = i]
         ELSE UpdateLoop(calls, i + 1, r.fs, refusedAt, Append(done, calls[i]))

\* the except clauses of l.224-229
UpdateOutcome(error) ==
    IF error = "none"
    THEN Call("update_project", "FINISHED", "INFO", "Project folders updated successfully.")
    ELSE IF error = "FileExistsError"
    THEN Call("update_project", "FINISHED", "INFO", "Folder already exists. Skipping creation.")
    ELSE Call("update_project", "CANCELLED", "ERROR", "Error updating project folders")

\* refusedAt: the filesystem call the OS refuses: -1 the listdir, 0 none,
\* i > 0 the i-th mkdir/rmtree
UpdateProject(refusedAt) ==
    /\ prev' = last
    /\ IF ~ Exists(Disk, RootPath)
       THEN /\ refusedAt = 0
            /\ last' = Call("update_project", "CANCELLED", "ERROR", "Directory does not exist.")
            /\ UNCHANGED << rootKind, children >>
       ELSE LET blender_folder_names == Range(folder_list)
                listing == Listdir(Disk, RootPath, refusedAt = -1)
                existing_folders == listing.names
                folders_to_add == blender_folder_names \ existing_folders
                folders_to_remove == existing_folders \ blender_folder_names
            IN
            IF listing.error # "none"
            THEN \* os.listdir is outside the try block: the exception leaves execute()
                 /\ refusedAt \in {-1, 0}
                 /\ last' = [Call("update_project", "RAISED", "NONE", listing.error)
                                 EXCEPT !.refused = (refusedAt = -1)]
                 /\ UNCHANGED << rootKind, children >>
            ELSE /\ refusedAt \in 0..(Cardinality(folders_to_add) + Cardinality(folders_to_remove))
                 /\ \E adds \in Orders(folders_to_add), removes \in Orders(folders_to_remove) :
                       LET calls == [i \in 1..Len(adds) |-> << "mkdir", adds[i] >>]
                                       \o [i \in 1..Len(removes) |-> << "rmtree", removes[i] >>]
                           r == UpdateLoop(calls, 1, Disk, refusedAt, << >>)
                       IN /\ rootKind' = r.fs.root
                          /\ children' = r.fs.children
                          /\ last' = [UpdateOutcome(r.error) EXCEPT
                                         !.toCreate = folders_to_add,
                                         !.toDelete = folders_to_remove,
                                         !.done = r.done,
                                         !.failed = r.failed,
                                         !.refused = r.refused]
    /\ UNCHANGED files
    /\ ListUnchanged /\ PrefsUnchanged /\ PropsUnchanged

-----------------------------------------------------------------------------
(* SetBlendFileOperator.                                                   *)

\* the user edits the ".Blend Name" string property (subtype FILE_NAME)
BlendNames == { << >>, << "s", "1" >> }

SetBlendName(name) ==
    /\ blend_name' = name
    /\ UNCHANGED << pure_ref_path, last, prev >>
    /\ ListUnchanged /\ PrefsUnchanged /\ DiskUnchanged

\* l.163-171
BlenderFolderPath ==
    LET directory_path == IF ~ EndsWith(AsPosix(RootPath), << "/" >>)
                          THEN PathJoin(RootPath, << >>)
                          ELSE RootPath
    IN PathJoin(directory_path, Blender)

\* the save path without the ".blend" extension
SavePathNoExtension(name) == PathJoin(BlenderFolderPath, name)

\* l.179
SavePath(name) == PathJoin(BlenderFolderPath, name \o DotBlend)

\* saveFails: bpy.ops.wm.save_as_mainfile raises (it cannot write the file)
SetBlendFile(saveFails) ==
    /\ prev' = last
    /\ IF ~ Exists(Disk, BlenderFolderPath)
       THEN /\ ~ saveFails
            /\ last' = [Call("set_blend_file", "CANCELLED", "ERROR", "Blender folder does not exist.")
                            EXCEPT !.input = blend_name]
       ELSE \* a regular file named Blender cannot hold the document
            /\ KindAt(Disk, BlenderFolderPath) = "file" => saveFails
            /\ last' = IF saveFails
                       THEN [Call("set_blend_file", "RAISED", "NONE", "RuntimeError")
                                EXCEPT !.saves = << SavePath(blend_name) >>,
                                       !.input = blend_name,
                                       !.refused = KindAt(Disk, BlenderFolderPath) = "dir"]
                       ELSE [Call("set_blend_file", "FINISHED", "INFO", "Blend file saved to")
                                EXCEPT !.saves = << SavePath(blend_name) >>,
                                       !.input = blend_name]
    /\ ListUnchanged /\ PrefsUnchanged /\ DiskUnchanged /\ PropsUnchanged

-----------------------------------------------------------------------------
(* OpenPureRefOperator.                                                    *)

\* the user edits the "PureRef File" string property
RefPaths ==
    { << >>,
      << "a", ".", "p", "u", "r" >>,
      << "A", ".", "P", "U", "R" >>,
      << "a", ".", "t", "x", "t" >>,
      << "/", "/", "a", ".", "p", "u", "r" >>,
      << "p", "u", "r" >>,
      DotPur }

SetPureRefPath(path) ==
    /\ pure_ref_path' = path
    /\ UNCHANGED << blend_name, last, prev >>
    /\ ListUnchanged /\ PrefsUnchanged /\ DiskUnchanged

\* the directory of the current .blend file, which bpy.path.abspath puts in
\* place of a leading "//"
BlendDir == << "/", "d", "/" >>

\* bpy.path.abspath(path)
Abspath(path) ==
    IF Len(path) >= 2 /\ path[1] = "/" /\ path[2] = "/"
    THEN BlendDir \o SubSeq(path, 3, Len(path))
    ELSE path

\* os.path.isfile(path)
IsFile(path) == path \in files

\* l.243
HasPurExtension(path) == path # << >> /\ EndsWith(Lower(path), DotPur)

\* fault: "none", "open" (open(absolute_path, 'rb') raises) or "popen"
\* (subprocess.Popen raises)
OpenPureRef(fault) ==
    LET Outcome(severity, message, launches) ==
            [Call("open_pureref", "FINISHED", severity, message)
                EXCEPT !.input = pure_ref_path,
                       !.launches = launches,
                       !.refused = fault # "none"]
    IN
    /\ prev' = last
    /\ IF HasPurExtension(pure_ref_path)
       THEN LET absolute_path == Abspath(pure_ref_path) IN
            IF IsFile(absolute_path)
            THEN /\ fault \in {"none", "open", "popen"}
                 /\ last' = CASE fault = "none" ->
                                   Outcome("NONE", "", << absolute_path >>)
                              [] fault = "open" ->
                                   Outcome("ERROR", "Error opening PureRef", << >>)
                              [] fault = "popen" ->
                                   Outcome("ERROR", "Error opening PureRef", << absolute_path >>)
            ELSE /\ fault = "none"
                 /\ last' = Outcome("ERROR", "PureRef project file not found", << >>)
       ELSE /\ fault = "none"
            /\ last' = Outcome("ERROR", "Please specify a valid PureRef project file.", << >>)
    /\ ListUnchanged /\ PrefsUnchanged /\ DiskUnchanged /\ PropsUnchanged

-----------------------------------------------------------------------------
(* Specifications.                                                         *)

\* the state after register(): the property defaults, nothing executed yet
InitScene ==
    /\ custom_folder_names = << >>
    /\ folder_list = << >>
    /\ active_folder_index = 0
    /\ blend_name = << >>
    /\ pure_ref_path = << >>
    /\ last = NoCall
    /\ prev = NoCall

NoDisk ==
    /\ rootKind = "absent"
    /\ children = << >>
    /\ files = {}

\* the folder list and the preferences alone
InitList ==
    /\ InitScene
    /\ default_folder_names = DefaultTemplate
    /\ NoDisk

NextList ==
    \/ \E t \in Templates : SetCustomFolderNames(t)
    \/ UpdateFolderPreferences
    \/ AddDefaultFolder
    \/ AddNewFolder
    \/ \E i \in 0..(Len(folder_list) - 1) : SelectFolder(i)
    \/ RemoveFolder

SpecList == InitList /\ [][NextList]_vars

\* templates the preferences hold when the project operators run
ProjectTemplates ==
    { << >>,
      << "a", ",", "b" >>,
      << ",", "a" >>,
      << "a", ",", "a" >>,
      Blender \o Comma \o << "a" >> }

\* names the root may hold before the add-on touches it
DiskNames == { << "a" >>, << "x" >>, Blender }

DiskChildren == UNION { [S -> {"dir", "file"}] : S \in SUBSET DiskNames }

\* the project operators on a disk: the root is missing, a regular file, or
\* a directory holding directories and regular files
Init ==
    /\ InitScene
    /\ default_folder_names \in ProjectTemplates
    /\ files = {}
    /\ \/ rootKind \in {"absent", "file"} /\ children = << >>
       \/ rootKind = "dir" /\ children \in DiskChildren

\* most filesystem calls one UpdateProject makes
MaxCalls == Cardinality(DiskNames) + MaxFolders + 1

Next ==
    \/ AddDefaultFolder
    \/ \E refusedAt \in 0..MaxFolders : CreateProject(refusedAt)
    \/ \E refusedAt \in -1..MaxCalls : UpdateProject(refusedAt)
    \/ \E name \in BlendNames : SetBlendName(name)
    \/ \E saveFails \in BOOLEAN : SetBlendFile(saveFails)

Spec == Init /\ [][Next]_vars

\* the PureRef launcher
RefFiles ==
    { << "a", ".", "p", "u", "r" >>,
      << "A", ".", "P", "U", "R" >>,
      << "a", ".", "t", "x", "t" >>,
      BlendDir \o << "a", ".", "p", "u", "r" >>,
      << "p", "u", "r" >> }

InitRef ==
    /\ InitScene
    /\ default_folder_names = DefaultTemplate
    /\ rootKind = "absent"
    /\ children = << >>
    /\ files \in SUBSET RefFiles

NextRef ==
    \/ \E path \in RefPaths : SetPureRefPath(path)
    \/ \E fault \in {"none", "open", "popen"} : OpenPureRef(fault)

SpecRef == InitRef /\ [][NextRef]_vars

-----------------------------------------------------------------------------
(* Properties.                                                             *)

\* the filesystem the last execute() call found
PreDisk == [root |-> last.preRoot, children |-> last.preChildren]

\* C1: UpdateProjectOperator.execute on an existing root directory, with no
\* filesystem call refused by the OS, leaves the root holding exactly the
\* distinct names of the folder list: every other name it held is gone, every
\* missing name is now a directory, every name in both is as it was.
C1_ReconcileMatchesFolderList ==
    (last.op = "update_project" /\ last.preRoot = "dir" /\ ~ last.refused) =>
        LET desired == Range(folder_list)
            actual == DOMAIN last.preChildren
        IN /\ DOMAIN children = desired
           /\ \A n \in actual \ desired : n \notin DOMAIN children
           /\ \A n \in desired \ actual : n \in DOMAIN children /\ children[n] = "dir"
           /\ \A n \in actual \cap desired :
                 n \in DOMAIN children /\ children[n] = last.preChildren[n]

\* C3: when the root does not exist or is not a directory,
\* CreateProjectOperator.execute and UpdateProjectOperator.execute report an
\* error, return CANCELLED and leave the filesystem as it was.
C3_InvalidRootIsRejected ==
    (last.op \in {"create_project", "update_project"} /\ last.preRoot # "dir") =>
        /\ last.result = "CANCELLED"
        /\ last.severity = "ERROR"
        /\ Disk = PreDisk

\* C4: after AddDefaultFolderOperator.execute the folder list holds the
\* template's comma-separated, whitespace-trimmed tokens in order, and is
\* empty when the template is empty.
C4_DefaultsAreTheTemplateTokens ==
    last.op = "add_default_folder" =>
        LET parts == Split(last.input, ",") IN
        IF last.input = << >>
        THEN folder_list = << >>
        ELSE folder_list = [i \in 1..Len(parts) |-> Strip(parts[i])]

\* C5: no exception leaves execute(): every call returns FINISHED or CANCELLED.
C5_NoExceptionEscapes ==
    last.result # "RAISED"

\* C6: when UpdateProjectOperator.execute runs twice in a row on the same
\* folder list, with no filesystem call refused, the second run finds nothing
\* to add and nothing to remove and leaves the root as the first run left it.
C6_ReconcileIsIdempotent ==
    ( /\ prev.op = "update_project" /\ prev.preRoot = "dir" /\ ~ prev.refused
      /\ last.op = "update_project" /\ ~ last.refused ) =>
        /\ last.toCreate = {}
        /\ last.toDelete = {}
        /\ Disk = PreDisk

\* C8: OpenPureRefOperator.execute given a path without the .pur extension, or
\* one that is no file on disk, reports an error, does not return FINISHED and
\* never calls the launcher; the launcher is called only for a path with the
\* extension that is a file.
C8_InvalidReferenceFails ==
    last.op = "open_pureref" =>
        LET valid == HasPurExtension(last.input) /\ IsFile(Abspath(last.input)) IN
        /\ ~ valid => ( /\ last.result # "FINISHED"
                        /\ last.severity = "ERROR"
                        /\ last.launches = << >> )
        /\ last.launches # << >> => valid

\* the names the filesystem calls of the last update_project got through
Processed == { last.done[i][2] : i \in 1..Len(last.done) }

\* C9: when a mkdir or rmtree inside UpdateProjectOperator.execute raises, the
\* call makes no further filesystem call, reports the error and returns
\* CANCELLED; it returns FINISHED only when every name to add and to remove
\* was processed.
C9_ReconcileFailureIsReported ==
    last.op = "update_project" =>
        /\ last.failed # NoName => ( /\ last.result = "CANCELLED"
                                     /\ last.severity = "ERROR" )
        /\ last.result = "FINISHED" => Processed = last.toCreate \cup last.toDelete

\* C10: every entry of the folder list has a non-empty name.
C10_FolderNamesAreNonEmpty ==
    \A i \in 1..Len(folder_list) : folder_list[i] # << >>

-----------------------------------------------------------------------------
(* CreateProjectOperator and SetBlendFileOperator.                         *)

\* the path of the i-th entry of the folder list
EntryPath(i) == PathJoin(RootPath, folder_list[i])

\* the filesystem fs once the names of S that it lacks are made directories
\* (the empty name is the root itself)
AfterCreating(fs, S) ==
    LET new == { n \in S : n # << >> /\ n \notin DOMAIN fs.children } IN
    [fs EXCEPT !.children = [n \in (DOMAIN fs.children) \cup new |->
                                IF n \in new THEN "dir" ELSE fs.children[n]]]

\* the first entry, in list order, whose path exists when the loop reaches it
\* (on disk before the call, or created for an earlier entry); 0 if none
FirstCollision ==
    LET hit == { i \in 1..Len(folder_list) :
                    \/ Exists(PreDisk, EntryPath(i))
                    \/ \E j \in 1..(i - 1) : folder_list[j] = folder_list[i] }
    IN IF hit = {} THEN 0 ELSE CHOOSE i \in hit : \A j \in hit : i <= j

\* C2 as stated: CreateProjectOperator.execute on a root directory, with no
\* call refused by the OS and every entry's name non-empty, fails at the first entry whose path already exists,
\* naming it and creating none of the later entries while the earlier ones
\* remain, and returns FINISHED only if every entry was newly created; run
\* twice against an empty root, the second run fails on the first entry.
C2_CreateAbortsOnCollision ==
    ( /\ last.op = "create_project" /\ last.preRoot = "dir" /\ ~ last.refused
      /\ << >> \notin Range(folder_list) ) =>
        LET k == FirstCollision IN
        /\ k = 0 => last.result = "FINISHED"
        /\ k # 0 => /\ last.result = "CANCELLED"
                    /\ last.failed = folder_list[k]
                    /\ Disk = AfterCreating(PreDisk, Range(SubSeq(folder_list, 1, k - 1)))
        /\ ( /\ prev.op = "create_project" /\ prev.result = "FINISHED"
             /\ prev.preRoot = "dir" /\ DOMAIN prev.preChildren = {}
             /\ folder_list # << >> ) =>
                 last.result = "CANCELLED" /\ last.failed = folder_list[1]

\* the first entry, in list order, whose makedirs raises of itself: its path
\* is a regular file, or the root is one; 0 if none
FirstBlocked ==
    LET hit == { i \in 1..Len(folder_list) :
                    \/ KindAt(PreDisk, EntryPath(i)) = "file"
                    \/ PreDisk.root = "file" }
    IN IF hit = {} THEN 0 ELSE CHOOSE i \in hit : \A j \in hit : i <= j

\* C2, amended: CreateProjectOperator.execute on an existing root accepts an
\* entry whose path is already a directory.  It stops at the first entry, in
\* list order, whose makedirs raises (the path is a regular file, the root is
\* a regular file, or the OS refuses the call), reports the error and returns
\* CANCELLED with the later entries not created and the earlier ones in place;
\* otherwise it returns FINISHED with every entry a directory and nothing else
\* changed.  Run again after a run that returned FINISHED, with no call
\* refused, it returns FINISHED and changes nothing.
C2_CreateSkipsExistingDirectories ==
    (last.op = "create_project" /\ last.preRoot # "absent") =>
        LET k == FirstBlocked
            n == Len(last.done)
        IN
        /\ last.done = SubSeq(folder_list, 1, n)
        /\ Disk = AfterCreating(PreDisk, Range(last.done))
        /\ ~ last.refused => n = (IF k = 0 THEN Len(folder_list) ELSE k - 1)
        /\ last.refused => n < Len(folder_list) /\ (k = 0 \/ n < k)
        /\ IF n = Len(folder_list)
           THEN /\ last.result = "FINISHED"
                /\ last.severity = "INFO"
                /\ \A i \in 1..Len(folder_list) : KindAt(Disk, EntryPath(i)) = "dir"
           ELSE /\ last.result = "CANCELLED"
                /\ last.severity = "ERROR"
                /\ last.failed = folder_list[n + 1]
        /\ ( /\ prev.op = "create_project" /\ prev.result = "FINISHED"
             /\ ~ last.refused ) =>
                 last.result = "FINISHED" /\ Disk = PreDisk

\* C2 witness: two runs in a row against a root that was empty, on a list of
\* two entries or more; both return FINISHED.
C2_SecondRunSucceeds ==
    /\ prev.op = "create_project" /\ prev.result = "FINISHED"
    /\ prev.preRoot = "dir" /\ DOMAIN prev.preChildren = {}
    /\ Len(prev.done) >= 2
    /\ last.op = "create_project" /\ last.result = "FINISHED" /\ ~ last.refused
    /\ DOMAIN children # {}

====
